---- MODULE Spec2Model ----
(***************************************************************************)
(* Model of main.py: the recorder window (AudioRecorder), its audio-driver *)
(* callback, its transcription worker threads, and the single-instance     *)
(* start-up protocol (is_already_running / send_show_request /             *)
(* start_local_server / handle_new_connection).                            *)
(***************************************************************************)
EXTENDS Integers, Sequences, FiniteSets, TLC

\* ---------------------------------------------------------------- bounds
MaxSessions == 2      \* recordings started in one run of the process
MaxChunks == 2        \* chunks the driver delivers on one stream
MaxChunkLen == 2      \* samples per chunk
NProc == 3            \* process launches racing at start-up
MaxConns == 3         \* connections after which no other local client connects

Sessions == 1..MaxSessions
Procs == 1..NProc

VARIABLES
  \* --- AudioRecorder fields (UI thread unless noted)
  recording,              \* self.recording
  audio_frames,           \* self.audio_frames: list of chunks
  timer_active,           \* self.timer is running
  stream_state,           \* self.stream: "absent" | "created" | "active" | "stopping" | "closed"
  stream_sess,            \* the recording the object in self.stream was opened for
  current_recording_path, \* self.current_recording_path (its timestamp), 0 = not yet set
  transcribe_btn_enabled, \* self.transcribe_btn.isEnabled()
  cancel_btn_enabled,     \* self.cancel_btn.isEnabled()
  loading_visible,        \* loading_widget shown, content_widget hidden
  api_key,                \* OPENAI_API_KEY is set in the environment
  ui_pc,                  \* where the UI thread is: "idle" | "finish" | "cancel" (inside stream.stop())
  nsess,                  \* number of start_recording calls so far
  \* --- worker threads, one per dispatched process_audio_thread
  workers,
  \* --- the world the worker acts on
  tmpfiles,               \* sessions whose temporary file exists on disk
  recordings,             \* permanent files: timestamp -> samples (<<>> = no file)
  clipboard,              \* 0 = untouched, else the session whose text it holds
  signals,                \* queued show_success_signal / show_error_signal emissions:
                          \* kind, emitting session, file path named in the message (0 = none)
  resets,                 \* pending QTimer.singleShot(reset_ui_for_next_transcription)
  \* --- history of the environment (not read by the program)
  delivered,              \* per session: chunks the driver delivered on its stream
  afterStop,              \* chunks delivered after stream.stop() was called
  late,                   \* sessions whose closed stream delivered one more chunk
  stopped,                \* sessions whose stream was stopped and closed
  device_errors,          \* sessions whose start reported a microphone error
  cancelled,              \* sessions ended by cancel_recording while recording
  dest,                   \* per session: the path start_recording derived for it (0 = none)
  \* --- single-instance protocol
  sem,                    \* QSystemSemaphore value
  shm_exists,             \* the QSharedMemory segment exists
  shm_attached,           \* number of handles attached to it
  ipc,                    \* per launch: position in main()
  already_running,        \* per launch: result of is_already_running()
  server_listening,       \* 0 = nobody listens on the key, else the listening launch
  pending_conn,           \* connections accepted by the OS, not yet handled: payloads
  show_sent,              \* launches that wrote "show" on a connection
  shows_raised,           \* number of show_normal_window() calls made by the handler
  conn_log                \* history: per handled connection, the payload read, whether
                          \* the window was raised, whether the socket was closed

recVars == <<recording, audio_frames, timer_active, stream_state, stream_sess,
             current_recording_path, transcribe_btn_enabled, cancel_btn_enabled,
             loading_visible, api_key, ui_pc, nsess, workers, tmpfiles, recordings,
             clipboard, signals, resets, delivered, afterStop, late, stopped,
             device_errors, cancelled, dest>>
instVars == <<sem, shm_exists, shm_attached, ipc, already_running, server_listening,
              pending_conn, show_sent, shows_raised, conn_log>>
vars == <<recVars, instVars>>

\* ------------------------------------------------------------- data
\* One chunk handed to audio_callback: samples tagged (session, chunk, position)
Chunk(s, i, n) == [k \in 1..n |-> <<s, i, k>>]

\* np.concatenate(self.audio_frames, axis=0)
RECURSIVE Concat(_)
Concat(frames) ==
  IF frames = <<>> THEN <<>> ELSE Head(frames) \o Concat(Tail(frames))

\* A process_audio_thread: its position, its argument and locals, and what
\* happened to it (save_failed, invoked, unlink_failed, copy_failed, result
\* and emitted, the number of signals it has emitted, are history).
NoWorker == [pc |-> "none", audio_data |-> <<>>, tmp_path |-> FALSE, saved |-> 0,
             save_failed |-> FALSE, invoked |-> FALSE, response |-> FALSE,
             unlink_failed |-> FALSE, copy_failed |-> FALSE, result |-> "none",
             emitted |-> 0]

\* -------------------------------------------------------------- Init
RecInit ==
  /\ recording = FALSE
  /\ audio_frames = <<>>
  /\ timer_active = FALSE
  /\ stream_state = "absent"
  /\ stream_sess = 0
  /\ current_recording_path = 0
  /\ transcribe_btn_enabled = TRUE
  /\ cancel_btn_enabled = FALSE
  /\ loading_visible = FALSE
  /\ api_key \in BOOLEAN
  /\ ui_pc = "idle"
  /\ nsess = 0
  /\ workers = [s \in Sessions |-> NoWorker]
  /\ tmpfiles = {}
  /\ recordings = [t \in Sessions |-> <<>>]
  /\ clipboard = 0
  /\ signals = <<>>
  /\ resets = 0
  /\ delivered = [s \in Sessions |-> <<>>]
  /\ afterStop = {}
  /\ late = {}
  /\ stopped = {}
  /\ device_errors = {}
  /\ cancelled = {}
  /\ dest = [s \in Sessions |-> 0]

\* No launch is under way (the recorder is looked at on its own)
InstIdle ==
  /\ sem = 1
  /\ shm_exists = FALSE
  /\ shm_attached = 0
  /\ ipc = [p \in Procs |-> "not_launched"]
  /\ already_running = [p \in Procs |-> "unknown"]
  /\ server_listening = 0
  /\ pending_conn = <<>>
  /\ show_sent = {}
  /\ shows_raised = 0
  /\ conn_log = <<>>

Init == RecInit /\ InstIdle

\* ------------------------------------------------------- UI thread
uiCtl == <<transcribe_btn_enabled, cancel_btn_enabled, loading_visible>>
world == <<tmpfiles, recordings, clipboard>>
hist == <<delivered, afterStop, late, stopped, device_errors, cancelled, dest>>

\* show_error: show the loading widget with the message, schedule the reset
show_error ==
  /\ loading_visible' = TRUE
  /\ resets' = resets + 1

\* show_success that schedules no reset
show_success_no_reset ==
  /\ loading_visible' = loading_visible
  /\ resets' = resets

\* show_success: set the message, schedule the reset
show_success ==
  /\ loading_visible' = loading_visible
  /\ resets' = resets + 1

\* reset_ui_for_next_transcription
reset_ui_for_next_transcription ==
  /\ transcribe_btn_enabled' = TRUE
  /\ cancel_btn_enabled' = FALSE
  /\ loading_visible' = FALSE

\* datetime.datetime.now() at one-second resolution: the same second as the
\* previous recording or a later one
Timestamps ==
  IF current_recording_path = 0 THEN {1}
  ELSE {t \in Sessions : t = current_recording_path \/ t = current_recording_path + 1}

\* What sd.InputStream(...) followed by stream.start() can do
StartOutcomes == {"ok", "ctor_fail", "start_fail"}

\* start_recording that keeps the previous contents of self.audio_frames
start_recording_keep_frames(o, t) ==
  /\ recording' = TRUE
  /\ audio_frames' = audio_frames
  /\ timer_active' = TRUE
  /\ cancel_btn_enabled' = TRUE
  /\ current_recording_path' = t
  /\ nsess' = nsess + 1
  /\ dest' = [dest EXCEPT ![nsess + 1] = t]
  /\ IF o = "ok"
       THEN /\ stream_state' = "active"
            /\ stream_sess' = nsess + 1
            /\ UNCHANGED <<loading_visible, resets, device_errors>>
       ELSE /\ IF o = "start_fail"
                 THEN stream_state' = "created" /\ stream_sess' = nsess + 1
                 ELSE UNCHANGED <<stream_state, stream_sess>>
            /\ show_error
            /\ device_errors' = device_errors \cup {nsess + 1}
  /\ UNCHANGED <<transcribe_btn_enabled, api_key, ui_pc, workers, world, signals,
                 delivered, afterStop, late, stopped, cancelled>>

\* start_recording, with the outcome o of opening the stream and the clock t
start_recording(o, t) ==
  /\ recording' = TRUE
  /\ audio_frames' = <<>>
  /\ timer_active' = TRUE
  /\ cancel_btn_enabled' = TRUE
  /\ current_recording_path' = t
  /\ nsess' = nsess + 1
  /\ dest' = [dest EXCEPT ![nsess + 1] = t]
  /\ IF o = "ok"
       THEN /\ stream_state' = "active"
            /\ stream_sess' = nsess + 1
            /\ UNCHANGED <<loading_visible, resets, device_errors>>
       ELSE /\ IF o = "start_fail"
                 THEN stream_state' = "created" /\ stream_sess' = nsess + 1
                 ELSE UNCHANGED <<stream_state, stream_sess>>
            /\ show_error
            /\ device_errors' = device_errors \cup {nsess + 1}
  /\ UNCHANGED <<transcribe_btn_enabled, api_key, ui_pc, workers, world, signals,
                 delivered, afterStop, late, stopped, cancelled>>

\* stop_recording_internals, from the return of stream.stop() on
stop_recording_internals ==
  /\ IF stream_state \in {"active", "stopping"}
       THEN /\ stream_state' = "closed"
            /\ stopped' = stopped \cup {stream_sess}
       ELSE UNCHANGED <<stream_state, stopped>>
  /\ recording' = FALSE
  /\ timer_active' = FALSE

\* The worker started by threading.Thread(target=process_audio_thread, args=(audio_data,))
Dispatched(audio_data) == [NoWorker EXCEPT !.pc = "save", !.audio_data = audio_data]

\* finish_recording that skips the test of OPENAI_API_KEY
finish_recording_no_key_check ==
  /\ stop_recording_internals
  /\ transcribe_btn_enabled' = FALSE
  /\ cancel_btn_enabled' = FALSE
  /\ IF audio_frames = <<>>
       THEN show_error /\ UNCHANGED workers
       ELSE /\ loading_visible' = TRUE
            /\ workers' = [workers EXCEPT ![nsess] = Dispatched(Concat(audio_frames))]
            /\ UNCHANGED resets
  /\ UNCHANGED <<audio_frames, stream_sess, current_recording_path, api_key, nsess,
                 world, signals, delivered, afterStop, late, device_errors,
                 cancelled, dest>>

\* finish_recording that skips the "no sound recorded" test
finish_recording_no_empty_check ==
  /\ stop_recording_internals
  /\ transcribe_btn_enabled' = FALSE
  /\ cancel_btn_enabled' = FALSE
  /\ IF ~api_key
       THEN show_error /\ UNCHANGED workers
       ELSE /\ loading_visible' = TRUE
            /\ workers' = [workers EXCEPT ![nsess] = Dispatched(Concat(audio_frames))]
            /\ UNCHANGED resets
  /\ UNCHANGED <<audio_frames, stream_sess, current_recording_path, api_key, nsess,
                 world, signals, delivered, afterStop, late, device_errors,
                 cancelled, dest>>

\* finish_recording, from the return of stream.stop() on
finish_recording ==
  /\ stop_recording_internals
  /\ transcribe_btn_enabled' = FALSE
  /\ cancel_btn_enabled' = FALSE
  /\ IF audio_frames = <<>>
       THEN show_error /\ UNCHANGED workers
       ELSE IF ~api_key
         THEN show_error /\ UNCHANGED workers
         ELSE /\ loading_visible' = TRUE
              /\ workers' = [workers EXCEPT ![nsess] = Dispatched(Concat(audio_frames))]
              /\ UNCHANGED resets
  /\ UNCHANGED <<audio_frames, stream_sess, current_recording_path, api_key, nsess,
                 world, signals, delivered, afterStop, late, device_errors,
                 cancelled, dest>>

\* cancel_recording, from the return of stream.stop() on
cancel_recording ==
  /\ IF recording
       THEN stop_recording_internals /\ cancelled' = cancelled \cup {nsess}
       ELSE UNCHANGED <<stream_state, stopped, recording, timer_active, cancelled>>
  /\ reset_ui_for_next_transcription
  /\ UNCHANGED <<audio_frames, stream_sess, current_recording_path, api_key, nsess,
                 workers, world, signals, resets, delivered, afterStop, late,
                 device_errors, dest>>

\* stream.stop() is entered: the UI thread blocks in it while the driver
\* thread finishes; self.recording is still True
BeginStop(who) ==
  /\ stream_state' = "stopping"
  /\ ui_pc' = who
  /\ UNCHANGED <<recording, audio_frames, timer_active, stream_sess,
                 current_recording_path, uiCtl, api_key, nsess, workers, world,
                 signals, resets, hist>>

\* toggle_recording
toggle_recording ==
  IF ~recording
    THEN /\ nsess < MaxSessions
         /\ \E o \in StartOutcomes, t \in Timestamps : start_recording(o, t)
    ELSE IF stream_state = "active"
      THEN BeginStop("finish")
      ELSE finish_recording /\ UNCHANGED ui_pc

\* F9: hotkey_pressed is connected straight to toggle_recording
Hotkey ==
  /\ ui_pc = "idle"
  /\ toggle_recording
  /\ UNCHANGED instVars

\* transcribe_btn.clicked, possible when the button is shown and enabled
ToggleButton ==
  /\ ui_pc = "idle"
  /\ transcribe_btn_enabled
  /\ ~loading_visible
  /\ toggle_recording
  /\ UNCHANGED instVars

\* cancel_btn.clicked, possible when the button is shown and enabled
CancelButton ==
  /\ ui_pc = "idle"
  /\ cancel_btn_enabled
  /\ ~loading_visible
  /\ IF recording /\ stream_state = "active"
       THEN BeginStop("cancel")
       ELSE cancel_recording /\ UNCHANGED ui_pc
  /\ UNCHANGED instVars

\* stream.stop() returns: the rest of the handler that called it runs
StopReturns ==
  /\ ui_pc \in {"finish", "cancel"}
  /\ IF ui_pc = "finish" THEN finish_recording ELSE cancel_recording
  /\ ui_pc' = "idle"
  /\ UNCHANGED instVars

\* A queued show_success_signal / show_error_signal reaches its slot
HandleSignal ==
  /\ ui_pc = "idle"
  /\ signals # <<>>
  /\ IF Head(signals).kind = "success" THEN show_success ELSE show_error
  /\ signals' = Tail(signals)
  /\ UNCHANGED <<recording, audio_frames, timer_active, stream_state, stream_sess,
                 current_recording_path, transcribe_btn_enabled, cancel_btn_enabled,
                 api_key, ui_pc, nsess, workers, world, hist>>
  /\ UNCHANGED instVars

\* A QTimer.singleShot scheduled by show_success / show_error fires
ResetFires ==
  /\ ui_pc = "idle"
  /\ resets > 0
  /\ reset_ui_for_next_transcription
  /\ resets' = resets - 1
  /\ UNCHANGED <<recording, audio_frames, timer_active, stream_state, stream_sess,
                 current_recording_path, api_key, ui_pc, nsess, workers, world,
                 signals, hist>>
  /\ UNCHANGED instVars

\* --------------------------------------------------- audio-driver thread
\* audio_callback that puts the new chunk in front of the list
audio_callback_prepend(indata) ==
  audio_frames' = IF recording THEN <<indata>> \o audio_frames ELSE audio_frames

\* audio_callback(indata, ...)
audio_callback(indata) ==
  audio_frames' = IF recording THEN Append(audio_frames, indata) ELSE audio_frames

\* The driver delivers the next chunk of the running stream
AudioCallback ==
  /\ stream_state \in {"active", "stopping"}
  /\ Len(delivered[stream_sess]) < MaxChunks
  /\ \E n \in 1..MaxChunkLen :
       LET c == Chunk(stream_sess, Len(delivered[stream_sess]) + 1, n) IN
         /\ audio_callback(c)
         /\ delivered' = [delivered EXCEPT ![stream_sess] = Append(@, c)]
         /\ afterStop' = IF stream_state = "stopping"
                           THEN afterStop \cup {c} ELSE afterStop
  /\ UNCHANGED <<recording, timer_active, stream_state, stream_sess,
                 current_recording_path, uiCtl, api_key, ui_pc, nsess, workers,
                 world, signals, resets, late, stopped, device_errors, cancelled,
                 dest>>
  /\ UNCHANGED instVars

\* A test driver calls audio_callback once more for a stream already closed
LateChunk ==
  /\ \E s \in stopped \ late :
       /\ audio_callback(Chunk(s, 0, 1))
       /\ late' = late \cup {s}
  /\ UNCHANGED <<recording, timer_active, stream_state, stream_sess,
                 current_recording_path, uiCtl, api_key, ui_pc, nsess, workers,
                 world, signals, resets, delivered, afterStop, stopped,
                 device_errors, cancelled, dest>>
  /\ UNCHANGED instVars

\* ------------------------------------------------- worker thread
\* What the first two writes of process_audio_thread can do: the temporary
\* file cannot be created, is created but cannot be written, or is written
\* and the permanent copy then fails
SaveOutcomes == {"ok", "tmp_create_fail", "tmp_write_fail", "save_fail"}
ServiceOutcomes == {"ok", "fail"}
UnlinkOutcomes == {"ok", "fail"}
CopyOutcomes == {"ok", "fail"}

\* process_audio_thread, except clause, entered by worker w of session s with
\* the temporary files tmp on disk: show_error_signal.emit, then
\* os.unlink(tmp_path) if tmp_path is set and the file exists (outcome u); an
\* unlink that raises here leaves the thread with the exception
ExceptWorker(w, s, tmp, u) ==
  IF w.tmp_path /\ s \in tmp /\ u = "fail"
    THEN [w EXCEPT !.pc = "crashed", !.result = "error", !.unlink_failed = TRUE]
    ELSE [w EXCEPT !.pc = "done", !.result = "error"]

ExceptTmpfiles(w, s, tmp, u) ==
  IF w.tmp_path /\ s \in tmp /\ u = "ok" THEN tmp \ {s} ELSE tmp

\* except clause with the emit placed after the unlink: an unlink that raises
\* leaves the thread before anything is emitted
ExceptSignals_after_unlink(w, s, tmp, sigs, u) ==
  IF w.tmp_path /\ s \in tmp /\ u = "fail"
    THEN sigs
    ELSE Append(sigs, [kind |-> "error", sess |-> s, path |-> 0])

\* except clause: show_error_signal.emit(f"Erreur de transcription: {str(e)}"),
\* its first statement after the print, whatever the unlink then does
ExceptSignals(w, s, tmp, sigs, u) ==
  Append(sigs, [kind |-> "error", sess |-> s, path |-> 0])

\* process_audio_thread up to the call of the service: NamedTemporaryFile +
\* sf.write(tmp), then sf.write(self.current_recording_path); a failure runs
\* the except clause
WorkerSave(s) ==
  /\ workers[s].pc = "save"
  /\ \E o \in SaveOutcomes, u \in UnlinkOutcomes :
       LET tmp == IF o = "tmp_create_fail" THEN tmpfiles ELSE tmpfiles \cup {s}
           w == [workers[s] EXCEPT
                   !.tmp_path = o \in {"ok", "save_fail"},
                   !.saved = IF o = "ok" THEN current_recording_path ELSE 0,
                   !.save_failed = (o = "save_fail")]
       IN IF o = "ok"
            THEN /\ tmpfiles' = tmp
                 /\ recordings' = [recordings EXCEPT ![current_recording_path] =
                                                        workers[s].audio_data]
                 /\ workers' = [workers EXCEPT ![s] = [w EXCEPT !.pc = "transcribe"]]
                 /\ UNCHANGED signals
            ELSE LET sigs == ExceptSignals(w, s, tmp, signals, u) IN
                 /\ tmpfiles' = ExceptTmpfiles(w, s, tmp, u)
                 /\ workers' = [workers EXCEPT ![s] =
                                  [ExceptWorker(w, s, tmp, u) EXCEPT
                                     !.emitted = @ + Len(sigs) - Len(signals)]]
                 /\ signals' = sigs
                 /\ UNCHANGED recordings
  /\ UNCHANGED <<recording, audio_frames, timer_active, stream_state, stream_sess,
                 current_recording_path, uiCtl, api_key, ui_pc, nsess, clipboard,
                 resets, hist>>
  /\ UNCHANGED instVars

\* process_audio_thread from the return of openai.audio.transcriptions.create
\* on: os.unlink(tmp_path) (outcome u1), pyperclip.copy (outcome c),
\* show_success_signal.emit; a failure of the service, of the unlink or of the
\* copy runs the except clause (unlink outcome u2)
WorkerTranscribe(s) ==
  /\ workers[s].pc = "transcribe"
  /\ \E o \in ServiceOutcomes, u1 \in UnlinkOutcomes, c \in CopyOutcomes,
        u2 \in UnlinkOutcomes :
       LET w == [workers[s] EXCEPT !.invoked = TRUE, !.response = (o = "ok")]
           unlinkRaises == o = "ok" /\ w.tmp_path /\ s \in tmpfiles /\ u1 = "fail"
           copyRaises == o = "ok" /\ ~unlinkRaises /\ c = "fail"
           tmp == IF o = "ok" /\ ~unlinkRaises THEN tmpfiles \ {s} ELSE tmpfiles
       IN IF o = "ok" /\ ~unlinkRaises /\ ~copyRaises
            THEN /\ tmpfiles' = tmp
                 /\ clipboard' = s
                 /\ signals' = Append(signals, [kind |-> "success", sess |-> s, path |-> 0])
                 /\ workers' = [workers EXCEPT
                                  ![s] = [w EXCEPT !.pc = "done", !.result = "success",
                                                   !.emitted = @ + 1]]
            ELSE LET x == [w EXCEPT !.unlink_failed = unlinkRaises,
                                    !.copy_failed = copyRaises]
                     sigs == ExceptSignals(x, s, tmp, signals, u2)
                 IN /\ tmpfiles' = ExceptTmpfiles(x, s, tmp, u2)
                    /\ workers' = [workers EXCEPT ![s] =
                                     [ExceptWorker(x, s, tmp, u2) EXCEPT
                                        !.emitted = @ + Len(sigs) - Len(signals)]]
                    /\ signals' = sigs
                    /\ UNCHANGED clipboard
  /\ UNCHANGED <<recording, audio_frames, timer_active, stream_state, stream_sess,
                 current_recording_path, uiCtl, api_key, ui_pc, nsess, recordings,
                 resets, hist>>
  /\ UNCHANGED instVars

\* ------------------------------------------------------------ recorder
Next ==
  \/ Hotkey
  \/ ToggleButton
  \/ CancelButton
  \/ StopReturns
  \/ HandleSignal
  \/ ResetFires
  \/ AudioCallback
  \/ \E s \in Sessions : WorkerSave(s)
  \/ \E s \in Sessions : WorkerTranscribe(s)

Spec == Init /\ [][Next]_vars

\* The recorder under a test driver that also delivers one chunk after Stop;
\* workers are dispatched but not scheduled in these runs
NextLate ==
  \/ Hotkey
  \/ ToggleButton
  \/ CancelButton
  \/ StopReturns
  \/ ResetFires
  \/ AudioCallback
  \/ LateChunk

SpecLate == Init /\ [][NextLate]_vars

\* ------------------------------------------------ single-instance protocol
\* N launches of main() with the same SINGLE_INSTANCE_KEY. A segment left
\* behind by a crashed earlier run (no handle attached) may or may not exist.
InitInst ==
  /\ RecInit
  /\ sem = 1
  /\ shm_exists \in BOOLEAN
  /\ shm_attached = 0
  /\ ipc = [p \in Procs |-> "acquire"]
  /\ already_running = [p \in Procs |-> "unknown"]
  /\ server_listening = 0
  /\ pending_conn = <<>>
  /\ show_sent = {}
  /\ shows_raised = 0
  /\ conn_log = <<>>

\* already_running = not shared_memory.create(1)
AlreadyRunningInverted(created) == IF created THEN "yes" ELSE "no"

AlreadyRunning(created) == IF created THEN "no" ELSE "yes"

\* is_already_running: semaphore.acquire()
SemAcquire(p) ==
  /\ ipc[p] = "acquire"
  /\ sem > 0
  /\ sem' = sem - 1
  /\ ipc' = [ipc EXCEPT ![p] = "attach"]
  /\ UNCHANGED <<shm_exists, shm_attached, already_running, server_listening,
                 pending_conn, show_sent, shows_raised, conn_log>>
  /\ UNCHANGED recVars

\* is_already_running: temp_shared.attach()
TempAttach(p) ==
  /\ ipc[p] = "attach"
  /\ IF shm_exists
       THEN shm_attached' = shm_attached + 1 /\ ipc' = [ipc EXCEPT ![p] = "detach"]
       ELSE shm_attached' = shm_attached /\ ipc' = [ipc EXCEPT ![p] = "create"]
  /\ UNCHANGED <<sem, shm_exists, already_running, server_listening, pending_conn,
                 show_sent, shows_raised, conn_log>>
  /\ UNCHANGED recVars

\* is_already_running: temp_shared.detach(); the segment goes with its last handle
TempDetach(p) ==
  /\ ipc[p] = "detach"
  /\ shm_attached' = shm_attached - 1
  /\ shm_exists' = (shm_attached - 1 > 0)
  /\ ipc' = [ipc EXCEPT ![p] = "create"]
  /\ UNCHANGED <<sem, already_running, server_listening, pending_conn, show_sent,
                 shows_raised, conn_log>>
  /\ UNCHANGED recVars

\* is_already_running: shared_memory.create(1), which fails if the segment exists
ShmCreate(p) ==
  /\ ipc[p] = "create"
  /\ already_running' = [already_running EXCEPT ![p] = AlreadyRunning(~shm_exists)]
  /\ shm_attached' = IF shm_exists THEN shm_attached ELSE shm_attached + 1
  /\ shm_exists' = TRUE
  /\ ipc' = [ipc EXCEPT ![p] = "release"]
  /\ UNCHANGED <<sem, server_listening, pending_conn, show_sent, shows_raised, conn_log>>
  /\ UNCHANGED recVars

\* is_already_running: semaphore.release() and return; main() branches on the result
SemRelease(p) ==
  /\ ipc[p] = "release"
  /\ sem' = sem + 1
  /\ ipc' = [ipc EXCEPT ![p] = IF already_running[p] = "yes" THEN "connect"
                                                              ELSE "construct"]
  /\ UNCHANGED <<shm_exists, shm_attached, already_running, server_listening,
                 pending_conn, show_sent, shows_raised, conn_log>>
  /\ UNCHANGED recVars

\* send_show_request, then main() returns: the message is written only if
\* somebody listens on the key when connectToServer is called
send_show_request(p) ==
  /\ ipc[p] = "connect"
  /\ IF server_listening # 0
       THEN /\ pending_conn' = Append(pending_conn, "show")
            /\ show_sent' = show_sent \cup {p}
       ELSE UNCHANGED <<pending_conn, show_sent>>
  /\ ipc' = [ipc EXCEPT ![p] = "exited"]
  /\ UNCHANGED <<sem, shm_exists, shm_attached, already_running, server_listening,
                 shows_raised, conn_log>>
  /\ UNCHANGED recVars

\* main(): recorder = AudioRecorder()
Construct(p) ==
  /\ ipc[p] = "construct"
  /\ ipc' = [ipc EXCEPT ![p] = "listen"]
  /\ UNCHANGED <<sem, shm_exists, shm_attached, already_running, server_listening,
                 pending_conn, show_sent, shows_raised, conn_log>>
  /\ UNCHANGED recVars

\* start_local_server: removeServer, listen, connect newConnection
start_local_server(p) ==
  /\ ipc[p] = "listen"
  /\ server_listening' = p
  /\ ipc' = [ipc EXCEPT ![p] = "running"]
  /\ UNCHANGED <<sem, shm_exists, shm_attached, already_running, pending_conn,
                 show_sent, shows_raised, conn_log>>
  /\ UNCHANGED recVars

\* What a local client other than a second launch can have written when the
\* handler reads: b"show", other bytes, or nothing within the 500 ms
Payloads == {"show", "shown", "sho", ""}

\* Some other local process connects to the server name and writes payload d
ForeignConnect(d) ==
  /\ server_listening # 0
  /\ Len(conn_log) + Len(pending_conn) < MaxConns
  /\ pending_conn' = Append(pending_conn, d)
  /\ UNCHANGED <<sem, shm_exists, shm_attached, ipc, already_running,
                 server_listening, show_sent, shows_raised, conn_log>>
  /\ UNCHANGED recVars

\* socket.waitForReadyRead(500): True when bytes arrived before the timeout
waitForReadyRead(data) == data # ""

\* handler that raises the window for whatever bytes it reads
RaisesShow_any_data(data) == waitForReadyRead(data)

\* if socket and socket.waitForReadyRead(500): data = socket.readAll().data();
\* if data == b"show": main_window.show_normal_window()
RaisesShow(data) == waitForReadyRead(data) /\ data = "show"

\* handle_new_connection: read the payload, show the window if it is b"show",
\* then socket.disconnectFromServer() on every path
handle_new_connection(p) ==
  /\ ipc[p] = "running"
  /\ server_listening = p
  /\ pending_conn # <<>>
  /\ LET data == Head(pending_conn) IN
       /\ shows_raised' = IF RaisesShow(data) THEN shows_raised + 1 ELSE shows_raised
       /\ conn_log' = Append(conn_log, [data |-> data, raised |-> RaisesShow(data),
                                        closed |-> TRUE])
  /\ pending_conn' = Tail(pending_conn)
  /\ UNCHANGED <<sem, shm_exists, shm_attached, ipc, already_running,
                 server_listening, show_sent>>
  /\ UNCHANGED recVars

NextInst ==
  \/ \E p \in Procs :
       \/ SemAcquire(p)
       \/ TempAttach(p)
       \/ TempDetach(p)
       \/ ShmCreate(p)
       \/ SemRelease(p)
       \/ send_show_request(p)
       \/ Construct(p)
       \/ start_local_server(p)
       \/ handle_new_connection(p)
  \/ \E d \in Payloads : ForeignConnect(d)

SpecInst == InitInst /\ [][NextInst]_vars

\* ================================================================ claims
\* A transcription worker is in flight (state Processing)
Processing == \E s \in Sessions : workers[s].pc \in {"save", "transcribe"}

\* The worker of session s has returned (normally or with an escaped exception)
Returned(s) == workers[s].pc \in {"done", "crashed"}

\* C1: a toggle request (F9 or the toggle button) that arrives while a worker
\* is in flight changes nothing: no recording starts, no stream is opened, no
\* worker is dispatched.
C1_ToggleIgnoredWhileProcessing ==
  [][(Processing /\ (Hotkey \/ ToggleButton))
       => UNCHANGED <<recording, timer_active, stream_state, stream_sess, nsess,
                      workers>>]_vars

\* C2: a start_recording whose stream cannot be opened or started reports the
\* device error and leaves the recorder Idle: recording flag false, elapsed
\* timer not running.
C2_DeviceErrorLeavesIdle ==
  [][device_errors' # device_errors => (~recording' /\ ~timer_active')]_vars

\* C3: once a worker has returned, its temporary file does not exist, on
\* every exit path (stated here for the runs in which os.unlink itself never
\* failed, the weakest reading of the claim).
C3_TempFileGoneAfterWorker ==
  \A s \in Sessions :
    (Returned(s) /\ ~workers[s].unlink_failed) => s \notin tmpfiles

\* C4: a failed write of the permanent copy is not fatal: the transcription
\* service is still invoked for that session.
C4_SaveFailureStillTranscribes ==
  \A s \in Sessions :
    (Returned(s) /\ workers[s].save_failed) => workers[s].invoked

\* C5: when the service returned text and removing the temporary file then
\* fails, the worker still delivers Success.
C5_CleanupFailureNotPropagated ==
  \A s \in Sessions :
    (Returned(s) /\ workers[s].response /\ workers[s].unlink_failed)
      => workers[s].result = "success"

\* Launches for which is_already_running returned False
Primaries == {p \in Procs : already_running[p] = "no"}

AllLaunchesDecided == \A p \in Procs : already_running[p] # "unknown"

\* C6: among N launches racing through is_already_running, never more than
\* one has obtained False, and once all have returned exactly one has.
C6_ExactlyOnePrimary ==
  /\ Cardinality(Primaries) <= 1
  /\ AllLaunchesDecided => Cardinality(Primaries) = 1

\* C6 witness: every launch has returned from is_already_running, one as
\* primary and all the others as "already running".
C6_Witness ==
  /\ AllLaunchesDecided
  /\ Cardinality(Primaries) = 1
  /\ Cardinality({p \in Procs : already_running[p] = "yes"}) = NProc - 1

\* C7: every launch that did not become primary has, by the time it exits,
\* written its "show" message on a connection to the primary.
C7_EverySecondaryDelivers ==
  \A p \in Procs : ipc[p] = "exited" => p \in show_sent

\* The chunk that frame i of a buffer came from: <<session, index>>; the
\* extra chunk of a closed stream has index 0
FrameChunk(frames, i) == <<frames[i][1][1], frames[i][1][2]>>

\* C8: a chunk delivered to audio_callback after stop_recording_internals has
\* returned for its session is never in the sample buffer (stated here for
\* the runs in which every stream opened without a device error).
C8_PostStopChunkExcluded ==
  device_errors = {} =>
    \A i \in 1..Len(audio_frames) : FrameChunk(audio_frames, i)[2] # 0

\* C9: a chunk delivered after Stop was invoked (stream.stop() entered, stream
\* not yet torn down) is never in the buffer nor in a worker's samples.
C9_ChunkAfterStopRequestDropped ==
  /\ \A i \in 1..Len(audio_frames) : audio_frames[i] \notin afterStop
  /\ \A s \in Sessions : \A c \in afterStop :
       \A k \in 1..Len(workers[s].audio_data) : workers[s].audio_data[k] # c[1]

\* Sum of the chunk lengths of a chunk sequence
RECURSIVE SumLen(_)
SumLen(chunks) == IF chunks = <<>> THEN 0 ELSE Len(Head(chunks)) + SumLen(Tail(chunks))

\* The samples of a chunk sequence, read off chunk by chunk and position by position
SampleAt(chunks, i, k) == chunks[i][k]

\* C10: the samples handed to the worker of a session are exactly the chunks
\* the driver delivered on that session's stream, in delivery order; their
\* number is the sum of the chunk lengths.
C10_HandedSamplesAreDeliveredChunks ==
  \A s \in Sessions :
    workers[s].pc # "none" =>
      /\ Len(workers[s].audio_data) = SumLen(delivered[s])
      /\ \A i \in 1..Len(delivered[s]) : \A k \in 1..Len(delivered[s][i]) :
           workers[s].audio_data[SumLen(SubSeq(delivered[s], 1, i - 1)) + k]
             = SampleAt(delivered[s], i, k)

\* C10 witness: a worker was dispatched for a later session with at least two
\* chunks of different lengths, after an earlier session had captured audio.
C10_Witness ==
  \E s \in Sessions :
    /\ s > 1
    /\ workers[s].pc # "none"
    /\ Len(delivered[s]) >= 2
    /\ Len(delivered[s][1]) # Len(delivered[s][2])
    /\ delivered[s - 1] # <<>>

\* Nothing is left for the event loop or a worker to do: no queued signal, no
\* pending reset timer, the UI thread outside stream.stop(), no worker in flight
Quiescent == signals = <<>> /\ resets = 0 /\ ui_pc = "idle" /\ ~Processing

\* State Idle: not recording, no worker in flight, toggle control enabled
IdleState == ~recording /\ ~Processing /\ transcribe_btn_enabled

\* C11: after a failure the recorder comes back to Idle with no user action.
\* Finite-run form for the device error on start: once the latest start has
\* reported a device error and every queued signal and reset timer has been
\* served, the state is Idle (recording false, no worker, toggle enabled).
C11_FailureReturnsToIdle ==
  (nsess \in device_errors /\ Quiescent) => IdleState

\* C12: a stop after which zero samples were captured ends in the
\* empty-recording failure and never reaches the service: no worker is ever
\* dispatched for a session on which the driver delivered nothing, and right
\* after such a stop the error is on display with its reset timer pending.
C12_EmptyRecordingNeverDispatched ==
  \A s \in Sessions :
    delivered[s] = <<>> =>
      /\ workers[s].pc = "none"
      /\ ~workers[s].invoked
      /\ (s = nsess /\ s \in stopped /\ ~recording /\ ui_pc = "idle"
            /\ ~transcribe_btn_enabled)
           => (loading_visible /\ resets > 0)

\* C12 witness: with the credential present, a recording whose stream was
\* opened, delivered nothing and was stopped by a toggle: the error is shown
\* and no worker exists for it.
C12_Witness ==
  \E s \in Sessions :
    /\ api_key
    /\ s = nsess /\ s \in stopped /\ ~recording
    /\ delivered[s] = <<>>
    /\ ~transcribe_btn_enabled /\ loading_visible /\ resets > 0
    /\ workers[s].pc = "none"

\* C13: a cancel request in state Recording stops the recorder and goes to
\* Idle without starting the pipeline: the cancelled session has no worker and
\* was never sent to the service, no worker of any session (a later toggle
\* included) holds one of its samples, and as long as it is the latest
\* session the recorder is not recording and the toggle control is enabled.
C13_CancelNeverDispatches ==
  \A s \in cancelled :
    /\ workers[s].pc = "none"
    /\ ~workers[s].invoked
    /\ \A w \in Sessions : \A k \in 1..Len(workers[w].audio_data) :
         workers[w].audio_data[k][1] # s
    /\ s = nsess => (~recording /\ ~timer_active /\ stream_state # "active"
                       /\ transcribe_btn_enabled)

\* C13 witness: a session that had captured audio was cancelled, and a later
\* toggle pair dispatched a worker for the next session.
C13_Witness ==
  \E s \in cancelled :
    /\ delivered[s] # <<>>
    /\ s + 1 \in Sessions
    /\ workers[s + 1].pc # "none"

\* C14: when the service fails after the permanent copy was written, the
\* result delivered for that session is an error that names the saved file,
\* and the file at the path derived for that session exists and holds exactly
\* that session's samples.
C14_ServiceFailureKeepsSavedAudio ==
  \A s \in Sessions :
    (Returned(s) /\ workers[s].saved # 0 /\ workers[s].invoked /\ ~workers[s].response)
      => /\ recordings[dest[s]] = workers[s].audio_data
         /\ \A i \in 1..Len(signals) :
              signals[i].sess = s =>
                (signals[i].kind = "error" /\ signals[i].path = workers[s].saved)

\* C15 as stated: in a process started without the API credential the state
\* Recording is never reached.
C15_NoCredentialNeverRecording == ~api_key => ~recording

\* C15 amended: a process started without the credential keeps running and
\* can record, but no worker is ever dispatched and the service is never
\* invoked; right after a stop with captured audio the configuration error is
\* on display with its reset timer pending.
C15_NoCredentialNoWorker ==
  ~api_key =>
    \A s \in Sessions :
      /\ workers[s].pc = "none"
      /\ ~workers[s].invoked
      /\ (s = nsess /\ s \in stopped /\ ~recording /\ ui_pc = "idle"
            /\ ~transcribe_btn_enabled)
           => (loading_visible /\ resets > 0)

\* C15 witness: without the credential, a recording that captured audio was
\* stopped by a toggle; the error is shown and no worker exists.
C15_Witness ==
  /\ ~api_key
  /\ nsess \in stopped /\ ~recording
  /\ audio_frames # <<>> /\ delivered[nsess] # <<>>
  /\ ~transcribe_btn_enabled /\ loading_visible /\ resets > 0
  /\ workers[nsess].pc = "none"

\* C16: in the success scenario (toggle, chunks captured, toggle, the service
\* returns text and neither the cleanup nor the clipboard fails) the worker
\* holds all the samples captured for its session, it delivers one success,
\* the clipboard holds a delivered text (this session's when no other session
\* succeeded), and once every queued signal and reset timer has been served
\* with no new recording started the recorder is Idle with the normal view.
C16_SuccessScenario ==
  \A s \in Sessions :
    (Returned(s) /\ workers[s].response /\ ~workers[s].unlink_failed
       /\ ~workers[s].copy_failed)
      => /\ workers[s].result = "success"
         /\ workers[s].emitted = 1
         /\ workers[s].audio_data = Concat(delivered[s])
         /\ clipboard # 0
         /\ workers[clipboard].result = "success"
         /\ (\A t \in Sessions \ {s} : workers[t].result # "success") => clipboard = s
         /\ (s = nsess /\ ~recording /\ Quiescent) => (IdleState /\ ~loading_visible)

\* C16 witness: the end-to-end scenario has run to its end for a single
\* session of two chunks: text on the clipboard, recorder Idle again.
C16_Witness ==
  /\ nsess = 1
  /\ Len(delivered[1]) = 2
  /\ Returned(1) /\ workers[1].response /\ workers[1].result = "success"
  /\ clipboard = 1
  /\ Quiescent /\ IdleState /\ ~loading_visible

\* C17: the connection handler raises the bring-to-foreground request if and
\* only if the payload it read is exactly "show" (other bytes, or nothing
\* before the read timeout, raise nothing), it closes the connection in every
\* case, and the window was raised once per "show" connection handled.
C17_ShowIffPayloadIsShow ==
  /\ \A i \in 1..Len(conn_log) :
       /\ conn_log[i].raised <=> (conn_log[i].data = "show")
       /\ conn_log[i].closed
  /\ shows_raised = Cardinality({i \in 1..Len(conn_log) : conn_log[i].data = "show"})

\* C17 witness: the handler has served a "show" connection, one with other
\* bytes that begin with "show", and one that sent nothing before the timeout.
C17_Witness ==
  /\ \E i \in 1..Len(conn_log) : conn_log[i].data = "show" /\ conn_log[i].raised
  /\ \E i \in 1..Len(conn_log) : conn_log[i].data = "shown" /\ ~conn_log[i].raised
  /\ \E i \in 1..Len(conn_log) : conn_log[i].data = "" /\ ~conn_log[i].raised
  /\ pending_conn = <<>>

\* The process_audio_thread workers that are in flight
InFlight == {s \in Sessions : workers[s].pc \in {"save", "transcribe"}}

\* C18: in every reachable state at most one process_audio_thread worker is
\* in flight.
C18_AtMostOneWorker == Cardinality(InFlight) <= 1

\* C19: each dispatched worker delivers exactly one result through the signal
\* channel: nothing while it runs, and once it has returned (normally or with
\* an exception that escaped the except clause) exactly one signal, a success
\* or an error; the queue never holds more signals of a worker than that.
C19_ExactlyOneResult ==
  \A s \in Sessions :
    /\ s \in InFlight => workers[s].emitted = 0
    /\ Returned(s) => (workers[s].emitted = 1 /\ workers[s].result \in {"success", "error"})
    /\ Cardinality({i \in 1..Len(signals) : signals[i].sess = s}) <= workers[s].emitted
    /\ \A i \in 1..Len(signals) :
         signals[i].sess = s => signals[i].kind = workers[s].result

\* C19 witness: one worker ended with its exception escaping the except clause
\* (the unlink there raised) and still delivered its error; another worker
\* delivered a success.
C19_Witness ==
  \E s, t \in Sessions :
    /\ workers[s].pc = "crashed" /\ workers[s].emitted = 1
    /\ workers[s].result = "error"
    /\ workers[t].pc = "done" /\ workers[t].emitted = 1
    /\ workers[t].result = "success"

\* C20: a worker writes the permanent copy to the path that was derived when
\* its own session started.
C20_SavedUnderOwnPath ==
  \A s \in Sessions : workers[s].saved # 0 => workers[s].saved = dest[s]

\* self.stream holds an open audio input stream (opened by sd.InputStream and
\* not yet closed)
StreamOpen == stream_state \in {"created", "active", "stopping"}

\* C21: whenever the recording flag is false no audio input stream is open; a
\* stream that was created but failed to start is released by the next Stop.
C21_NoStreamOpenWhenNotRecording == ~recording => ~StreamOpen

\* C22: a reset scheduled by show_success or show_error never takes effect in
\* a later session, so in every reachable state the toggle control is enabled
\* only outside Processing and the cancel control is enabled exactly while
\* recording (stated here for the runs in which every stream opened without a
\* device error).
C22_ControlsFollowState ==
  device_errors = {} =>
    /\ transcribe_btn_enabled => ~Processing
    /\ cancel_btn_enabled <=> recording

====
